---- MODULE Spec2Model ----
(***************************************************************************)
(* Model of the event-orchestration layer of bilibili_stream_lib:          *)
(*   Monitor       (monitor.go)  one polling goroutine per watched room,   *)
(*                               last-known status, non-blocking fan-out;  *)
(*   StreamClient  (client.go)   dispatch loop over the Monitor's events   *)
(*                               and one capture goroutine per live event. *)
(* Every action is one atomic step of the Go code: a critical section of   *)
(* a mutex, one call of an external collaborator, or one select.  Steps    *)
(* that only touch goroutine-local data are merged into the next step      *)
(* that touches shared data.                                               *)
(***************************************************************************)
EXTENDS Integers, Sequences, FiniteSets, TLC

\* ------------------------------------------------------------------ bounds
MaxPoll  == 2      \* pollRoom goroutines ever started
MaxTicks == 2      \* ticker firings over all polling goroutines
MaxSubs  == 2      \* calls of Watch (resp. Subscribe)
MaxCapt  == 2      \* startCapture goroutines ever started
ChanCap  == 1      \* capacity of a subscriber channel (eventBufSize and
                   \* streamEventBufSize are 64 in the source)

\* ------------------------------------------------------- program constants
maxCaptureRetries == 5

\* Durations are counted in seconds.  Second is time.Second in the unit of
\* time.Duration, the nanosecond.
Second == 1000000000
baseRetryDelay == 2
maxRetryDelay == 120

\* The largest attempt argument retryWait is applied to.
MaxAttempt == 34

\* Two room ids tell one entity from another.
Rooms   == {1, 2}
PollIds == 1..MaxPoll
SubIds  == 1..MaxSubs
CaptIds == 1..MaxCapt

RECURSIVE SeqsUpTo(_)
SeqsUpTo(n) ==
    IF n = 0 THEN {<<>>}
    ELSE LET S == SeqsUpTo(n - 1)
         IN  S \cup {Append(s, r) : s \in {x \in S : Len(x) = n - 1}, r \in Rooms}

\* The roomIDs arguments of Watch: every list, duplicates included, that the
\* goroutine budget can start.
IdLists == SeqsUpTo(MaxPoll)

RECURSIVE SumOver(_, _)
SumOver(f, S) ==
    IF S = {} THEN 0
    ELSE LET x == CHOOSE y \in S : TRUE IN f[x] + SumOver(f, S \ {x})

VARIABLES
    \* ---- Monitor (monitor.go:17-29)
    rooms,      \* m.rooms: room id -> polling goroutine whose cancel is stored, 0 = no entry
    status,     \* m.status: room id -> "none" (no entry) | "live" | "off"
    started,    \* m.started (m.parentCtx is set in the same step)
    msubs,      \* m.subs: the channels the Monitor publishes to
    mch,        \* buffered contents of each channel made by Watch
    mclosed,    \* channel closed
    nWatch,     \* channels made by Watch so far
    ctxDone,    \* the caller's context passed to Watch/Subscribe is cancelled
    poll,       \* the pollRoom goroutines
    nPoll,      \* pollRoom goroutines started so far
    nTicks,     \* ticker firings so far
    closers,    \* Watch's closer goroutines that have not run yet
    watching,   \* a Watch call is between its first and its last line
    watchTodo,  \* the roomIDs that call has still to start
    adding,     \* AddRoom calls that found no entry and have not started the room yet, per room id
    returning,  \* room ids of AddRoom calls that found an entry and are returning
    \* ---- StreamClient (client.go:24-34)
    csubs,      \* c.subs
    cch,        \* buffered contents of each channel made by Subscribe
    cclosed,
    captures,   \* c.captures: room id -> capture goroutine whose cancel is stored, 0 = no entry
    capt,       \* the startCapture goroutines
    nCapt,
    disp,       \* the dispatch goroutines, one per Subscribe
    cleaners,   \* the cleanup goroutines, one per Subscribe
    removing,   \* room ids of StreamClient.RemoveRoom calls between their two critical sections
    autoCapture,\* c.cfg.autoCapture
    wait,       \* a retryWait call: its attempt argument and the delay it computed
    \* ---- history, read by the properties only
    probed,     \* per room: the probe results recorded in m.status, in order
    emitted,    \* per room: the RoomEvents handed to publishEvent, in order
    removed,    \* per room: RemoveRoom has been called for it
    early,      \* room ids AddRoom was called for before the Monitor was started
    derived,    \* per room: the last of "live"/"offline" the dispatch loop published for it
    cev         \* per capture goroutine: the types of the events it published, in order

monVars  == <<rooms, status, started, msubs, mch, mclosed, nWatch, ctxDone, poll,
              nPoll, nTicks, closers, watching, watchTodo, adding, returning>>
cliVars  == <<csubs, cch, cclosed, captures, capt, nCapt, disp, cleaners, removing,
              autoCapture, wait>>
histVars == <<probed, emitted, removed, early, derived, cev>>
vars     == <<monVars, cliVars, histVars>>

NoPoll == [room |-> 0, pc |-> "unused", live |-> FALSE, own |-> FALSE, fresh |-> TRUE]
\* by: which step called the goroutine's cancel first (read by the properties only)
NoCapt == [room |-> 0, pc |-> "unused", attempt |-> 0, own |-> FALSE, by |-> "none",
           pre |-> FALSE]
NoDisp == [pc |-> "unused", room |-> 0]
NoWait == [pc |-> "idle", attempt |-> 0, delay |-> 0, prev |-> 0, first |-> TRUE]

\* NewMonitor / NewStreamClient: empty maps, no subscribers, not started.
InitCommon ==
    /\ rooms = [r \in Rooms |-> 0]
    /\ status = [r \in Rooms |-> "none"]
    /\ started = FALSE
    /\ msubs = {}
    /\ mch = [i \in SubIds |-> <<>>]
    /\ mclosed = [i \in SubIds |-> FALSE]
    /\ nWatch = 0
    /\ ctxDone = FALSE
    /\ poll = [t \in PollIds |-> NoPoll]
    /\ nPoll = 0
    /\ nTicks = 0
    /\ closers = 0
    /\ watching = FALSE
    /\ watchTodo = <<>>
    /\ adding = [r \in Rooms |-> 0]
    /\ returning = {}
    /\ csubs = {}
    /\ cch = [i \in SubIds |-> <<>>]
    /\ cclosed = [i \in SubIds |-> FALSE]
    /\ captures = [r \in Rooms |-> 0]
    /\ capt = [t \in CaptIds |-> NoCapt]
    /\ nCapt = 0
    /\ disp = [i \in SubIds |-> NoDisp]
    /\ cleaners = [i \in SubIds |-> "unused"]
    /\ removing = {}
    /\ probed = [r \in Rooms |-> <<>>]
    /\ emitted = [r \in Rooms |-> <<>>]
    /\ removed = [r \in Rooms |-> FALSE]
    /\ early = {}
    /\ derived = [r \in Rooms |-> "none"]
    /\ cev = [c \in CaptIds |-> <<>>]

\* ------------------------------------------------------------ Monitor

\* A goroutine's context reports Done: its own cancel was called, or the
\* parent context it derives from is cancelled (context.WithCancel).
PollCancelled(t) == poll[t].own \/ ctxDone

\* A send that does not look at the channel's capacity.
TrySendUnbounded(buf, ev) == Append(buf, ev)

\* One non-blocking send (the select with a default branch).
TrySend(buf, ev) == IF Len(buf) < ChanCap THEN Append(buf, ev) ELSE buf

\* publishEvent: every channel of m.subs gets one non-blocking send.
publishEvent(ev) ==
    mch' = [i \in SubIds |-> IF i \in msubs THEN TrySend(mch[i], ev) ELSE mch[i]]

\* pollRoom goroutines the calls in flight may still start.
Pending == Len(watchTodo) + SumOver(adding, Rooms)

\* startRoom: store the new cancel under the lock, start the goroutine.
startRoom(r) ==
    /\ nPoll' = nPoll + 1
    /\ rooms' = [rooms EXCEPT ![r] = nPoll + 1]
    /\ poll' = [poll EXCEPT ![nPoll + 1] = [NoPoll EXCEPT !.room = r, !.pc = "probe"]]

\* Watch, first lines: make the channel, append it, set parentCtx and started.
WatchEnter(ids) ==
    /\ ~watching
    /\ nWatch < MaxSubs
    /\ nPoll + Pending + Len(ids) <= MaxPoll
    /\ nWatch' = nWatch + 1
    /\ msubs' = msubs \cup {nWatch + 1}
    /\ started' = TRUE
    /\ watching' = TRUE
    /\ watchTodo' = ids
    /\ UNCHANGED <<rooms, status, mch, mclosed, ctxDone, poll, nPoll, nTicks, closers,
                   adding, returning>>


\* Watch, one iteration of the loop over roomIDs.
WatchLoop ==
    /\ watching
    /\ watchTodo # <<>>
    /\ startRoom(Head(watchTodo))
    /\ watchTodo' = Tail(watchTodo)
    /\ UNCHANGED <<status, started, msubs, mch, mclosed, nWatch, ctxDone, nTicks,
                   closers, watching, adding, returning>>

\* Watch, last lines: start the closer goroutine and return the channel.
WatchLeave ==
    /\ watching
    /\ watchTodo = <<>>
    /\ watching' = FALSE
    /\ closers' = closers + 1
    /\ UNCHANGED <<rooms, status, started, msubs, mch, mclosed, nWatch, ctxDone, poll,
                   nPoll, nTicks, watchTodo, adding, returning>>

\* A closer goroutine that does not wait for ctx.Done.
closeSubsEarly ==
    /\ closers > 0
    /\ closers' = closers - 1
    /\ mclosed' = [i \in SubIds |-> mclosed[i] \/ i \in msubs]
    /\ msubs' = {}
    /\ UNCHANGED <<rooms, status, started, mch, nWatch, ctxDone, poll, nPoll, nTicks,
                   watching, watchTodo, adding, returning>>

\* A closer goroutine that closes the channels and leaves them in m.subs.
closeSubsKeepsList ==
    /\ closers > 0
    /\ ctxDone
    /\ closers' = closers - 1
    /\ mclosed' = [i \in SubIds |-> mclosed[i] \/ i \in msubs]
    /\ UNCHANGED <<rooms, status, started, msubs, mch, nWatch, ctxDone, poll, nPoll,
                   nTicks, watching, watchTodo, adding, returning>>

\* The closer goroutine of Watch: after ctx.Done and the sleep, close every
\* channel of m.subs and set m.subs to nil, under the write lock.
closeSubs ==
    /\ closers > 0
    /\ ctxDone
    /\ closers' = closers - 1
    /\ mclosed' = [i \in SubIds |-> mclosed[i] \/ i \in msubs]
    /\ msubs' = {}
    /\ UNCHANGED <<rooms, status, started, mch, nWatch, ctxDone, poll, nPoll, nTicks,
                   watching, watchTodo, adding, returning>>

\* AddRoomLookup without the lookup: every call goes on to start the room.
AddRoomLookupBlind(r) ==
    /\ nPoll + Pending < MaxPoll
    /\ adding' = [adding EXCEPT ![r] = @ + 1]
    /\ UNCHANGED <<rooms, status, started, msubs, mch, mclosed, nWatch, ctxDone, poll,
                   nPoll, nTicks, closers, watching, watchTodo, returning>>

\* AddRoom, the critical section: look the room up (monitor.go:81-86).
\* A call that finds an entry returns; one that finds none goes on.
AddRoomLookup(r) ==
    /\ IF rooms[r] # 0
       THEN /\ returning' = returning \cup {r}
            /\ UNCHANGED adding
       ELSE /\ nPoll + Pending < MaxPoll
            /\ adding' = [adding EXCEPT ![r] = @ + 1]
            /\ UNCHANGED returning
    /\ UNCHANGED <<rooms, status, started, msubs, mch, mclosed, nWatch, ctxDone, poll,
                   nPoll, nTicks, closers, watching, watchTodo>>

\* AddRoom, the return of a call that found an entry (monitor.go:83-84).
AddRoomReturn(r) ==
    /\ r \in returning
    /\ returning' = returning \ {r}
    /\ UNCHANGED <<rooms, status, started, msubs, mch, mclosed, nWatch, ctxDone, poll,
                   nPoll, nTicks, closers, watching, watchTodo, adding>>

\* AddRoom, after the unlock: start the room if the monitor is started.
AddRoomStart(r) ==
    /\ adding[r] > 0
    /\ adding' = [adding EXCEPT ![r] = @ - 1]
    /\ IF started
       THEN startRoom(r)
       ELSE UNCHANGED <<rooms, poll, nPoll>>
    /\ UNCHANGED <<status, started, msubs, mch, mclosed, nWatch, ctxDone, nTicks,
                   closers, watching, watchTodo, returning>>

\* A RemoveRoom that discards the status of every room.
MonitorRemoveRoomWide(r) ==
    /\ IF rooms[r] # 0
       THEN /\ poll' = [poll EXCEPT ![rooms[r]].own = TRUE]
            /\ rooms' = [rooms EXCEPT ![r] = 0]
            /\ status' = [q \in Rooms |-> "none"]
       ELSE UNCHANGED <<poll, rooms, status>>
    /\ UNCHANGED <<started, msubs, mch, mclosed, nWatch, ctxDone, nPoll, nTicks,
                   closers, watching, watchTodo, adding, returning>>

\* Monitor.RemoveRoom: one critical section.
MonitorRemoveRoom(r) ==
    /\ IF rooms[r] # 0
       THEN /\ poll' = [poll EXCEPT ![rooms[r]].own = TRUE]
            /\ rooms' = [rooms EXCEPT ![r] = 0]
            /\ status' = [status EXCEPT ![r] = "none"]
       ELSE UNCHANGED <<poll, rooms, status>>
    /\ UNCHANGED <<started, msubs, mch, mclosed, nWatch, ctxDone, nPoll, nTicks,
                   closers, watching, watchTodo, adding, returning>>

\* The results GetRoomInfo can return to checkRoom.  With a cancelled
\* context the request fails; otherwise it fails or reports live or offline.
ProbeOutcomes(t) == IF PollCancelled(t) THEN {"err"} ELSE {"err", "live", "off"}

\* checkRoomFailed ending the polling goroutine on an error.
checkRoomFailedStops(t) ==
    /\ poll' = [poll EXCEPT ![t].pc = "exited"]
    /\ UNCHANGED <<rooms, status, msubs, mch>>

\* checkRoom when GetRoomInfo returned an error (monitor.go:139-145).
checkRoomFailed(t) ==
    /\ poll' = [poll EXCEPT ![t].pc = "wait"]
    /\ UNCHANGED <<rooms, status, msubs, mch>>

\* checkRoom, the GetRoomInfo call.
checkRoomProbe(t) ==
    /\ poll[t].pc = "probe"
    /\ \E o \in ProbeOutcomes(t) :
         IF o = "err"
         THEN checkRoomFailed(t)
         ELSE /\ poll' = [poll EXCEPT ![t].pc = "update", ![t].live = (o = "live")]
              /\ UNCHANGED <<rooms, status, msubs, mch>>
    /\ UNCHANGED <<started, mclosed, nWatch, ctxDone, nPoll, nTicks, closers, watching,
                   watchTodo, adding, returning>>

\* Emits without the second early return: a first offline result is published.
EmitsFirstOffline(prev, live) ==
    IF prev # "none" /\ live = (prev = "live") THEN FALSE
    ELSE TRUE

\* checkRoom's two early returns (monitor.go:155-162): TRUE when the event
\* is published.  prev is "none" when m.status had no entry (known = false).
Emits(prev, live) ==
    IF prev # "none" /\ live = (prev = "live") THEN FALSE
    ELSE IF prev = "none" /\ ~live THEN FALSE
    ELSE TRUE

\* checkRoom, the critical section: read the previous status, store the new.
\* The two early returns only read locals, so they are decided here.
checkRoomUpdate(t) ==
    LET r == poll[t].room
        l == poll[t].live
    IN  /\ poll[t].pc = "update"
        /\ status' = [status EXCEPT ![r] = IF l THEN "live" ELSE "off"]
        /\ poll' = [poll EXCEPT ![t] =
                      IF Emits(status[r], l)
                      THEN [@ EXCEPT !.pc = "emit"]
                      ELSE [@ EXCEPT !.pc = "wait", !.live = FALSE, !.fresh = FALSE]]
        /\ UNCHANGED <<rooms, started, msubs, mch, mclosed, nWatch, ctxDone, nPoll,
                       nTicks, closers, watching, watchTodo, adding, returning>>

\* checkRoom, the publishEvent call.
checkRoomEmit(t) ==
    /\ poll[t].pc = "emit"
    /\ publishEvent([room |-> poll[t].room, live |-> poll[t].live])
    /\ poll' = [poll EXCEPT ![t].pc = "wait", ![t].live = FALSE, ![t].fresh = FALSE]
    /\ UNCHANGED <<rooms, status, started, msubs, mclosed, nWatch, ctxDone, nPoll,
                   nTicks, closers, watching, watchTodo, adding, returning>>

\* pollRoom's select, the ticker case.
pollRoomTick(t) ==
    /\ poll[t].pc = "wait"
    /\ nTicks < MaxTicks
    /\ nTicks' = nTicks + 1
    /\ poll' = [poll EXCEPT ![t].pc = "probe"]
    /\ UNCHANGED <<rooms, status, started, msubs, mch, mclosed, nWatch, ctxDone, nPoll,
                   closers, watching, watchTodo, adding, returning>>

\* A pollRoom that returns from its select without a cancellation.
pollRoomDoneUncancelled(t) ==
    /\ poll[t].pc = "wait"
    /\ poll' = [poll EXCEPT ![t].pc = "exited"]
    /\ UNCHANGED <<rooms, status, started, msubs, mch, mclosed, nWatch, ctxDone, nPoll,
                   nTicks, closers, watching, watchTodo, adding, returning>>

\* pollRoom's select, the ctx.Done case.
pollRoomDone(t) ==
    /\ poll[t].pc = "wait"
    /\ PollCancelled(t)
    /\ poll' = [poll EXCEPT ![t].pc = "exited"]
    /\ UNCHANGED <<rooms, status, started, msubs, mch, mclosed, nWatch, ctxDone, nPoll,
                   nTicks, closers, watching, watchTodo, adding, returning>>

\* The caller cancels the context it passed to Watch/Subscribe.
cancelCtx ==
    /\ ~ctxDone
    /\ ctxDone' = TRUE
    /\ UNCHANGED <<rooms, status, started, msubs, mch, mclosed, nWatch, poll, nPoll,
                   nTicks, closers, watching, watchTodo, adding, returning>>

\* The holder of a Watch channel receives one event.
receive(i) ==
    /\ mch[i] # <<>>
    /\ mch' = [mch EXCEPT ![i] = Tail(@)]
    /\ UNCHANGED <<rooms, status, started, msubs, mclosed, nWatch, ctxDone, poll, nPoll,
                   nTicks, closers, watching, watchTodo, adding, returning>>

\* ------------------------------------------------- the Monitor used alone
Watch(ids)      == WatchEnter(ids) /\ UNCHANGED <<cliVars, histVars>>
WatchStartRoom  == WatchLoop /\ UNCHANGED <<cliVars, histVars>>
WatchReturn     == WatchLeave /\ UNCHANGED <<cliVars, histVars>>
MonitorClose    == closeSubs /\ UNCHANGED <<cliVars, histVars>>
AddRoomCheck(r) == AddRoomLookup(r) /\ UNCHANGED <<cliVars, histVars>>
AddRoomNoop(r)  == AddRoomReturn(r) /\ UNCHANGED <<cliVars, histVars>>
AddRoom(r)      ==
    /\ AddRoomStart(r)
    /\ early' = IF started THEN early ELSE early \cup {r}
    /\ UNCHANGED <<cliVars, probed, emitted, removed, derived, cev>>
RemoveRoom(r)   ==
    /\ MonitorRemoveRoom(r)
    /\ removed' = [removed EXCEPT ![r] = TRUE]
    /\ UNCHANGED <<cliVars, probed, emitted, early, derived, cev>>
PollProbe(t)    == checkRoomProbe(t) /\ UNCHANGED <<cliVars, histVars>>
PollUpdate(t)   == checkRoomUpdate(t) /\ UNCHANGED <<cliVars, histVars>>
PollEmit(t)     == checkRoomEmit(t) /\ UNCHANGED <<cliVars, histVars>>
PollTick(t)     == pollRoomTick(t) /\ UNCHANGED <<cliVars, histVars>>
PollExit(t)     == pollRoomDone(t) /\ UNCHANGED <<cliVars, histVars>>
CancelCtx       == cancelCtx /\ UNCHANGED <<cliVars, histVars>>
Receive(i)      == receive(i) /\ UNCHANGED <<cliVars, histVars>>

InitMon == InitCommon /\ autoCapture = TRUE /\ wait = NoWait

\* Monitor with its whole API: Watch, AddRoom and RemoveRoom in any order
\* and interleaving with the polling goroutines, up to the first firing of
\* the ticker (each goroutine makes its immediate check).
NextMon ==
    \/ \E ids \in IdLists : Watch(ids)
    \/ WatchStartRoom
    \/ WatchReturn
    \/ MonitorClose
    \/ \E r \in Rooms : AddRoomCheck(r)
    \/ \E r \in Rooms : AddRoomNoop(r)
    \/ \E r \in Rooms : AddRoom(r)
    \/ \E r \in Rooms : RemoveRoom(r)
    \/ \E t \in PollIds : PollProbe(t)
    \/ \E t \in PollIds : PollUpdate(t)
    \/ \E t \in PollIds : PollEmit(t)
    \/ \E t \in PollIds : PollExit(t)
    \/ CancelCtx

SpecMon == InitMon /\ [][NextMon]_vars

\* ------------------------------------- the polling loop with its history
PollUpdateH(t) ==
    /\ checkRoomUpdate(t)
    /\ probed' = [probed EXCEPT ![poll[t].room] = Append(@, poll[t].live)]
    /\ UNCHANGED <<cliVars, emitted, removed, early, derived, cev>>

PollEmitH(t) ==
    /\ checkRoomEmit(t)
    /\ emitted' = [emitted EXCEPT ![poll[t].room] = Append(@, poll[t].live)]
    /\ UNCHANGED <<cliVars, probed, removed, early, derived, cev>>

\* Watch called for one room while no goroutine polls.
WatchOne(r) == nPoll = 0 /\ Watch(<<r>>)

\* One watched room and its single polling goroutine, the consumer of the
\* channel and the end of the caller's context; no AddRoom, no RemoveRoom.
NextPoll ==
    \/ \E r \in Rooms : WatchOne(r)
    \/ WatchStartRoom
    \/ WatchReturn
    \/ MonitorClose
    \/ \E t \in PollIds : PollProbe(t)
    \/ \E t \in PollIds : PollUpdateH(t)
    \/ \E t \in PollIds : PollEmitH(t)
    \/ \E t \in PollIds : PollTick(t)
    \/ \E t \in PollIds : PollExit(t)
    \/ CancelCtx
    \/ \E i \in SubIds : Receive(i)

SpecPoll == InitMon /\ [][NextPoll]_vars

\* The events a sequence of recorded probe results must produce: one per
\* change of the value, and one for a first value that is live.
RECURSIVE Transitions(_, _)
Transitions(seq, last) ==
    IF seq = <<>> THEN <<>>
    ELSE LET x == Head(seq)
             changed == IF last = "none" THEN x ELSE x # (last = "live")
         IN  (IF changed THEN <<x>> ELSE <<>>)
                \o Transitions(Tail(seq), IF x THEN "live" ELSE "off")

TasksOf(r) == {t \in PollIds : poll[t].pc # "unused" /\ poll[t].room = r}

\* C1: for a room polled by a single goroutine and never removed, the
\* events handed to publishEvent are exactly the changes of the recorded
\* probe results, a first live result counting as a change and a first
\* offline result not: after each completed check the published sequence is
\* Transitions of the probed sequence, and while a check is between its
\* status update and its publishEvent call the one event still owed is the
\* last of them.
C1_EmitIffChanged ==
    \A r \in Rooms :
        (Cardinality(TasksOf(r)) = 1 /\ ~removed[r]) =>
            LET t == CHOOSE u \in TasksOf(r) : TRUE
                want == Transitions(probed[r], "none")
            IN  IF poll[t].pc = "emit"
                THEN want = Append(emitted[r], poll[t].live)
                ELSE want = emitted[r]

\* C1 witness: offline, live, offline probed by a single goroutine gave
\* exactly the two events live, offline.
C1_Witness ==
    \E r \in Rooms :
        /\ Cardinality(TasksOf(r)) = 1
        /\ probed[r] = <<FALSE, TRUE, FALSE>>
        /\ emitted[r] = <<TRUE, FALSE>>

\* ---------------------------------------------------------- StreamClient

\* A capture goroutine's captureCtx reports Done.
CaptCancelled(c) == capt[c].own \/ ctxDone

\* publishStreamEvent: every channel of c.subs gets one non-blocking send.
publishStreamEvent(ev) ==
    cch' = [i \in SubIds |-> IF i \in csubs THEN TrySend(cch[i], ev) ELSE cch[i]]

\* cancel() of capture goroutine c called by the step named why.
Cancelled(rec, why) ==
    [rec EXCEPT !.own = TRUE, !.by = IF rec.own THEN rec.by ELSE why]

\* The cancel-and-delete of c.captures[r] (client.go:112-115 and 149-152).
cancelCapture(r, why) ==
    IF captures[r] # 0
    THEN /\ capt' = [capt EXCEPT ![captures[r]] = Cancelled(@, why)]
         /\ captures' = [captures EXCEPT ![r] = 0]
    ELSE UNCHANGED <<capt, captures>>

\* Subscribe, first lines: append the client channel, then Watch's first lines.
SubscribeEnter(ids) ==
    /\ WatchEnter(ids)
    /\ csubs' = csubs \cup {nWatch + 1}
    /\ UNCHANGED <<cch, cclosed, captures, capt, nCapt, disp, cleaners, removing,
                   autoCapture, wait>>
    /\ UNCHANGED histVars

\* Subscribe, last lines: Watch returns; start the dispatch and the cleanup
\* goroutine of this call.
SubscribeLeave ==
    /\ WatchLeave
    /\ disp' = [disp EXCEPT ![nWatch] = [pc |-> "run", room |-> 0]]
    /\ cleaners' = [cleaners EXCEPT ![nWatch] = "wait"]
    /\ UNCHANGED <<csubs, cch, cclosed, captures, capt, nCapt, removing, autoCapture, wait>>
    /\ UNCHANGED histVars

\* dispatch's select, the ctx.Done case.
dispatchDone(d) ==
    /\ disp[d].pc = "run"
    /\ ctxDone
    /\ disp' = [disp EXCEPT ![d].pc = "exited"]
    /\ UNCHANGED <<monVars, csubs, cch, cclosed, captures, capt, nCapt, cleaners,
                   removing, autoCapture, wait, histVars>>

\* dispatch's select, the receive from a closed and drained channel.
dispatchClosed(d) ==
    /\ disp[d].pc = "run"
    /\ mch[d] = <<>>
    /\ mclosed[d]
    /\ disp' = [disp EXCEPT ![d].pc = "exited"]
    /\ UNCHANGED <<monVars, csubs, cch, cclosed, captures, capt, nCapt, cleaners,
                   removing, autoCapture, wait, histVars>>

\* A live branch that starts the capture whatever the option says.
handleLiveAlways(d) ==
    /\ disp[d].pc = "run"
    /\ mch[d] # <<>>
    /\ Head(mch[d]).live
    /\ mch' = [mch EXCEPT ![d] = Tail(@)]
    /\ publishStreamEvent([room |-> Head(mch[d]).room, type |-> "live"])
    /\ derived' = [derived EXCEPT ![Head(mch[d]).room] = "live"]
    /\ nCapt < MaxCapt
    /\ nCapt' = nCapt + 1
    /\ capt' = [capt EXCEPT ![nCapt + 1] =
                  [NoCapt EXCEPT !.room = Head(mch[d]).room, !.pc = "start"]]
    /\ UNCHANGED <<rooms, status, started, msubs, mclosed, nWatch, ctxDone, poll, nPoll,
                   nTicks, closers, watching, watchTodo, adding, returning>>
    /\ UNCHANGED <<csubs, cclosed, captures, disp, cleaners, removing, autoCapture, wait>>
    /\ UNCHANGED <<probed, emitted, removed, early, cev>>

\* dispatch receives a live RoomEvent; handleRoomEvent publishes EventLive
\* and, with autoCapture, starts a startCapture goroutine.
handleLive(d) ==
    /\ disp[d].pc = "run"
    /\ mch[d] # <<>>
    /\ Head(mch[d]).live
    /\ mch' = [mch EXCEPT ![d] = Tail(@)]
    /\ publishStreamEvent([room |-> Head(mch[d]).room, type |-> "live"])
    /\ derived' = [derived EXCEPT ![Head(mch[d]).room] = "live"]
    /\ IF autoCapture
       THEN /\ nCapt < MaxCapt
            /\ nCapt' = nCapt + 1
            /\ capt' = [capt EXCEPT ![nCapt + 1] =
                          [NoCapt EXCEPT !.room = Head(mch[d]).room, !.pc = "start"]]
       ELSE UNCHANGED <<nCapt, capt>>
    /\ UNCHANGED <<rooms, status, started, msubs, mclosed, nWatch, ctxDone, poll, nPoll,
                   nTicks, closers, watching, watchTodo, adding, returning>>
    /\ UNCHANGED <<csubs, cclosed, captures, disp, cleaners, removing, autoCapture, wait>>
    /\ UNCHANGED <<probed, emitted, removed, early, cev>>

\* An offline branch that returns to the loop without publishing.
handleOfflineSkips(d) ==
    /\ disp[d].pc = "run"
    /\ mch[d] # <<>>
    /\ ~Head(mch[d]).live
    /\ mch' = [mch EXCEPT ![d] = Tail(@)]
    /\ cancelCapture(Head(mch[d]).room, "offline")
    /\ UNCHANGED <<rooms, status, started, msubs, mclosed, nWatch, ctxDone, poll, nPoll,
                   nTicks, closers, watching, watchTodo, adding, returning>>
    /\ UNCHANGED <<csubs, cch, cclosed, nCapt, disp, cleaners, removing, autoCapture, wait>>
    /\ UNCHANGED histVars

\* dispatch receives an offline RoomEvent; handleRoomEvent cancels and
\* deletes the room's capture under capturesMu.
handleOffline(d) ==
    /\ disp[d].pc = "run"
    /\ mch[d] # <<>>
    /\ ~Head(mch[d]).live
    /\ mch' = [mch EXCEPT ![d] = Tail(@)]
    /\ cancelCapture(Head(mch[d]).room, "offline")
    /\ disp' = [disp EXCEPT ![d] = [pc |-> "offpub", room |-> Head(mch[d]).room]]
    /\ UNCHANGED <<rooms, status, started, msubs, mclosed, nWatch, ctxDone, poll, nPoll,
                   nTicks, closers, watching, watchTodo, adding, returning>>
    /\ UNCHANGED <<csubs, cch, cclosed, nCapt, cleaners, removing, autoCapture, wait>>
    /\ UNCHANGED histVars

\* handleRoomEvent, offline branch: publish EventOffline.
publishOffline(d) ==
    /\ disp[d].pc = "offpub"
    /\ publishStreamEvent([room |-> disp[d].room, type |-> "offline"])
    /\ derived' = [derived EXCEPT ![disp[d].room] = "offline"]
    /\ disp' = [disp EXCEPT ![d] = [pc |-> "run", room |-> 0]]
    /\ UNCHANGED <<monVars, csubs, cclosed, captures, capt, nCapt, cleaners, removing,
                   autoCapture, wait>>
    /\ UNCHANGED <<probed, emitted, removed, early, cev>>

\* startCapture's critical section without the cancel of the stored capture.
startCaptureRegisterKeep(c) ==
    /\ capt[c].pc = "start"
    /\ captures' = [captures EXCEPT ![capt[c].room] = c]
    /\ capt' = [capt EXCEPT ![c].pc = IF ctxDone THEN "done" ELSE "call"]
    /\ UNCHANGED <<monVars, csubs, cch, cclosed, nCapt, disp, cleaners, removing,
                   autoCapture, wait, histVars>>

\* startCapture, the critical section (client.go:166-174): cancel the
\* stored capture, store the own cancel; then the loop's first ctx check.
startCaptureRegister(c) ==
    LET r == capt[c].room
        old == captures[r]
        me == [capt[c] EXCEPT !.pc = IF ctxDone THEN "done" ELSE "call"]
    IN  /\ capt[c].pc = "start"
        /\ captures' = [captures EXCEPT ![r] = c]
        /\ capt' = IF old # 0
                   THEN [capt EXCEPT ![old] = Cancelled(@, "supersede"), ![c] = me]
                   ELSE [capt EXCEPT ![c] = me]
        /\ UNCHANGED <<monVars, csubs, cch, cclosed, nCapt, disp, cleaners, removing,
                       autoCapture, wait, histVars>>

\* The results of one attempt: GetStreamURL or CaptureAudio fails, or both
\* succeed.  With a cancelled context the calls fail.
AttemptOutcomes(c) == IF CaptCancelled(c) THEN {"err"} ELSE {"err", "ok"}

\* An attempt whose failure publishes no EventError.
startCaptureAttemptSilent(c) ==
    /\ capt[c].pc = "call"
    /\ \E o \in AttemptOutcomes(c) :
         IF o = "err"
         THEN /\ UNCHANGED <<cch, cev>>
              /\ capt' = [capt EXCEPT ![c].pc = "backoff"]
         ELSE /\ publishStreamEvent([room |-> capt[c].room, type |-> "audio_ready",
                                   cancel |-> c])
              /\ cev' = [cev EXCEPT ![c] = Append(@, "audio_ready")]
              /\ capt' = [capt EXCEPT ![c].pc = "done"]
    /\ UNCHANGED <<monVars, csubs, cclosed, captures, nCapt, disp, cleaners, removing,
                   autoCapture, wait>>
    /\ UNCHANGED <<probed, emitted, removed, early, derived>>

\* An attempt whose failure cancels the other capture goroutines.
startCaptureAttemptFatal(c) ==
    /\ capt[c].pc = "call"
    /\ \E o \in AttemptOutcomes(c) :
         IF o = "err"
         THEN /\ publishStreamEvent([room |-> capt[c].room, type |-> "error"])
              /\ cev' = [cev EXCEPT ![c] = Append(@, "error")]
              /\ capt' = [x \in CaptIds |->
                            IF x = c THEN [capt[c] EXCEPT !.pc = "backoff"]
                            ELSE Cancelled(capt[x], "error")]
         ELSE /\ publishStreamEvent([room |-> capt[c].room, type |-> "audio_ready",
                                   cancel |-> c])
              /\ cev' = [cev EXCEPT ![c] = Append(@, "audio_ready")]
              /\ capt' = [capt EXCEPT ![c].pc = "done"]
    /\ UNCHANGED <<monVars, csubs, cclosed, captures, nCapt, disp, cleaners, removing,
                   autoCapture, wait>>
    /\ UNCHANGED <<probed, emitted, removed, early, derived>>

\* An attempt whose success is followed by the backoff wait.
startCaptureAttemptGoesOn(c) ==
    /\ capt[c].pc = "call"
    /\ \E o \in AttemptOutcomes(c) :
         IF o = "err"
         THEN /\ publishStreamEvent([room |-> capt[c].room, type |-> "error"])
              /\ cev' = [cev EXCEPT ![c] = Append(@, "error")]
              /\ capt' = [capt EXCEPT ![c].pc = "backoff"]
         ELSE /\ publishStreamEvent([room |-> capt[c].room, type |-> "audio_ready",
                                   cancel |-> c])
              /\ cev' = [cev EXCEPT ![c] = Append(@, "audio_ready")]
              /\ capt' = [capt EXCEPT ![c].pc = "backoff"]
    /\ UNCHANGED <<monVars, csubs, cclosed, captures, nCapt, disp, cleaners, removing,
                   autoCapture, wait>>
    /\ UNCHANGED <<probed, emitted, removed, early, derived>>

\* startCapture, one attempt (client.go:181-224): EventError and the
\* backoff on a failure, EventAudioReady and return on success.
startCaptureAttempt(c) ==
    /\ capt[c].pc = "call"
    /\ \E o \in AttemptOutcomes(c) :
         IF o = "err"
         THEN /\ publishStreamEvent([room |-> capt[c].room, type |-> "error"])
              /\ cev' = [cev EXCEPT ![c] = Append(@, "error")]
              /\ capt' = [capt EXCEPT ![c].pc = "backoff"]
         ELSE /\ publishStreamEvent([room |-> capt[c].room, type |-> "audio_ready",
                                   cancel |-> c])
              /\ cev' = [cev EXCEPT ![c] = Append(@, "audio_ready")]
              /\ capt' = [capt EXCEPT ![c].pc = "done"]
    /\ UNCHANGED <<monVars, csubs, cclosed, captures, nCapt, disp, cleaners, removing,
                   autoCapture, wait>>
    /\ UNCHANGED <<probed, emitted, removed, early, derived>>

\* retryWait's select, the ctx.Done case: startCapture returns.
retryWaitDone(c) ==
    /\ capt[c].pc = "backoff"
    /\ CaptCancelled(c)
    /\ capt' = [capt EXCEPT ![c].pc = "done"]
    /\ UNCHANGED <<monVars, csubs, cch, cclosed, captures, nCapt, disp, cleaners,
                   removing, autoCapture, wait, histVars>>

\* A retry loop without the attempt limit.
retryWaitElapsedUnlimited(c) ==
    /\ capt[c].pc = "backoff"
    /\ capt' = [capt EXCEPT ![c].pc = IF CaptCancelled(c) THEN "done" ELSE "call"]
    /\ UNCHANGED <<monVars, csubs, cch, cclosed, captures, nCapt, disp, cleaners,
                   removing, autoCapture, wait, histVars>>

\* A backoff wait that does not look at the context.
retryWaitElapsedDeaf(c) ==
    /\ capt[c].pc = "backoff"
    /\ capt' = [capt EXCEPT ![c].attempt = @ + 1,
                            ![c].pc = IF capt[c].attempt + 1 >= maxCaptureRetries
                                      THEN "done" ELSE "call"]
    /\ UNCHANGED <<monVars, csubs, cch, cclosed, captures, nCapt, disp, cleaners,
                   removing, autoCapture, wait, histVars>>

\* retryWait's select, the timer case: the loop goes on with attempt + 1,
\* ends when the attempts are used up, and returns at its ctx check.
retryWaitElapsed(c) ==
    /\ capt[c].pc = "backoff"
    /\ capt' = [capt EXCEPT ![c].attempt = @ + 1,
                            ![c].pc = IF capt[c].attempt + 1 >= maxCaptureRetries
                                         \/ CaptCancelled(c)
                                      THEN "done" ELSE "call"]
    /\ UNCHANGED <<monVars, csubs, cch, cclosed, captures, nCapt, disp, cleaners,
                   removing, autoCapture, wait, histVars>>

\* A cleanup goroutine that goes to its sleep without cancelling.
cleanupCancelSkips(d) ==
    /\ cleaners[d] = "wait"
    /\ ctxDone
    /\ cleaners' = [cleaners EXCEPT ![d] = "sleep"]
    /\ UNCHANGED <<monVars, csubs, cch, cclosed, captures, capt, nCapt, disp, removing,
                   autoCapture, wait, histVars>>

\* Subscribe's cleanup goroutine after ctx.Done: cancel and delete every
\* capture under capturesMu.
cleanupCancel(d) ==
    /\ cleaners[d] = "wait"
    /\ ctxDone
    /\ cleaners' = [cleaners EXCEPT ![d] = "sleep"]
    /\ capt' = [c \in CaptIds |->
                  IF \E r \in Rooms : captures[r] = c
                  THEN Cancelled(capt[c], "cleanup") ELSE capt[c]]
    /\ captures' = [r \in Rooms |-> 0]
    /\ UNCHANGED <<monVars, csubs, cch, cclosed, nCapt, disp, removing, autoCapture, wait,
                   histVars>>

\* The cleanup goroutine after its sleep: close every channel of c.subs and
\* set c.subs to nil, under the write lock.
cleanupClose(d) ==
    /\ cleaners[d] = "sleep"
    /\ cleaners' = [cleaners EXCEPT ![d] = "done"]
    /\ cclosed' = [i \in SubIds |-> cclosed[i] \/ i \in csubs]
    /\ csubs' = {}
    /\ UNCHANGED <<monVars, cch, captures, capt, nCapt, disp, removing, autoCapture, wait,
                   histVars>>

\* StreamClient.RemoveRoom, first the Monitor's RemoveRoom.  The capture
\* goroutines started for the room before the call are marked (field pre).
ClientRemoveMonitor(r) ==
    /\ MonitorRemoveRoom(r)
    /\ removing' = removing \cup {r}
    /\ removed' = [removed EXCEPT ![r] = TRUE]
    /\ capt' = [c \in CaptIds |->
                  IF capt[c].room = r THEN [capt[c] EXCEPT !.pre = TRUE] ELSE capt[c]]
    /\ UNCHANGED <<csubs, cch, cclosed, captures, nCapt, disp, cleaners, autoCapture, wait>>
    /\ UNCHANGED <<probed, emitted, early, derived, cev>>

\* StreamClient.RemoveRoom, then the cancel-and-delete of the capture.
ClientRemoveCapture(r) ==
    /\ r \in removing
    /\ removing' = removing \ {r}
    /\ cancelCapture(r, "remove")
    /\ UNCHANGED <<monVars, csubs, cch, cclosed, nCapt, disp, cleaners, autoCapture, wait,
                   histVars>>

\* The holder of a Subscribe channel receives one event.
creceive(i) ==
    /\ cch[i] # <<>>
    /\ cch' = [cch EXCEPT ![i] = Tail(@)]
    /\ UNCHANGED <<monVars, csubs, cclosed, captures, capt, nCapt, disp, cleaners,
                   removing, autoCapture, wait, histVars>>

\* ---------------------------------------- the StreamClient over its Monitor
\* Subscribe called for one room while no goroutine polls.
SubscribeOne(r) == nPoll = 0 /\ SubscribeEnter(<<r>>)

InitCli == InitCommon /\ autoCapture = TRUE /\ wait = NoWait

\* One Subscribe for one room: its polling goroutine, the dispatch loop,
\* the capture goroutines of its live events, the cleanup goroutine, the
\* consumer of the client channel and the end of the caller's context.
NextCli ==
    \/ \E r \in Rooms : SubscribeOne(r)
    \/ WatchStartRoom
    \/ SubscribeLeave
    \/ MonitorClose
    \/ \E t \in PollIds : PollProbe(t)
    \/ \E t \in PollIds : PollUpdateH(t)
    \/ \E t \in PollIds : PollEmitH(t)
    \/ \E t \in PollIds : PollTick(t)
    \/ \E t \in PollIds : PollExit(t)
    \/ CancelCtx
    \/ \E d \in SubIds : dispatchDone(d)
    \/ \E d \in SubIds : dispatchClosed(d)
    \/ \E d \in SubIds : handleLive(d)
    \/ \E d \in SubIds : handleOffline(d)
    \/ \E d \in SubIds : publishOffline(d)
    \/ \E c \in CaptIds : startCaptureRegister(c)
    \/ \E c \in CaptIds : startCaptureAttempt(c)
    \/ \E c \in CaptIds : retryWaitDone(c)
    \/ \E c \in CaptIds : retryWaitElapsed(c)
    \/ \E d \in SubIds : cleanupCancel(d)
    \/ \E d \in SubIds : cleanupClose(d)
    \/ \E i \in SubIds : creceive(i)

SpecCli == InitCli /\ [][NextCli]_vars

\* ------------------------------------------------- two Subscribe channels
\* Subscribe called with at most one room; only the first non-empty call
\* starts a polling goroutine.
SubscribeFan(ids) ==
    /\ Len(ids) <= 1
    /\ nPoll = 0 \/ ids = <<>>
    /\ SubscribeEnter(ids)

InitFan == InitCommon /\ autoCapture = FALSE /\ wait = NoWait

\* Two Subscribe calls on one client without auto-capture: the Monitor
\* fans out to two dispatch loops, each of them fans out to the two client
\* channels, whose holders receive at their own pace.
NextFan ==
    \/ \E ids \in IdLists : SubscribeFan(ids)
    \/ WatchStartRoom
    \/ SubscribeLeave
    \/ MonitorClose
    \/ \E t \in PollIds : PollProbe(t)
    \/ \E t \in PollIds : PollUpdate(t)
    \/ \E t \in PollIds : PollEmit(t)
    \/ \E t \in PollIds : PollTick(t)
    \/ \E t \in PollIds : PollExit(t)
    \/ CancelCtx
    \/ \E d \in SubIds : dispatchDone(d)
    \/ \E d \in SubIds : dispatchClosed(d)
    \/ \E d \in SubIds : handleLive(d)
    \/ \E d \in SubIds : handleOffline(d)
    \/ \E d \in SubIds : publishOffline(d)
    \/ \E d \in SubIds : cleanupCancel(d)
    \/ \E d \in SubIds : cleanupClose(d)
    \/ \E i \in SubIds : creceive(i)

SpecFan == InitFan /\ [][NextFan]_vars

\* A polling goroutine that has been started, has not returned and whose
\* context is not cancelled.
PollRunning(t) ==
    /\ poll[t].pc \notin {"unused", "exited"}
    /\ ~PollCancelled(t)

\* C5: every room id has at most one uncancelled polling goroutine, and no
\* goroutine runs uncancelled unless its cancel function is the one stored
\* for its room in m.rooms.  (m.status is a map: one value per id at most.)
C5_OneTaskPerRoom ==
    /\ \A r \in Rooms : Cardinality({t \in TasksOf(r) : PollRunning(t)}) <= 1
    /\ \A t \in PollIds : PollRunning(t) => rooms[poll[t].room] = t

\* C6: AddRoom for a room that has an entry in m.rooms is a no-op, and a
\* second AddRoom after a first one is one: a call goes past the lookup
\* only when the room has no entry, a call that found an entry returns
\* without changing the maps or the goroutines, and a call that found none
\* leaves, in a started monitor, an entry for the room (which the next
\* call finds).
C6_AddRoomIdempotent ==
    [][\A r \in Rooms :
         /\ adding'[r] > adding[r] => rooms[r] = 0
         /\ (r \in returning' /\ r \notin returning) =>
                rooms[r] # 0 /\ UNCHANGED <<rooms, status, poll, nPoll, adding>>
         /\ (r \in returning /\ r \notin returning') =>
                UNCHANGED <<rooms, status, poll, nPoll, adding>>
         /\ (adding'[r] < adding[r] /\ started) => rooms'[r] # 0]_vars

\* C6 witness: an AddRoom call found the entry of a room that a polling
\* goroutine watches, and is returning.
C6_Witness ==
    \E r \in Rooms :
        /\ r \in returning
        /\ rooms[r] # 0
        /\ PollRunning(rooms[r])
        /\ status[r] # "none"

\* C7: a room AddRoom was called for before the monitor was started is
\* polled once a Watch call has run (a goroutine was started for it unless
\* it was removed since), and an AddRoom call that finds no entry in a
\* started monitor starts a polling goroutine in the step it runs.
C7_AddBeforeStartQueued ==
    /\ [](\A r \in early :
            (nWatch > 0 /\ ~watching /\ ~removed[r]) => TasksOf(r) # {})
    /\ [][\A r \in Rooms :
            (adding'[r] < adding[r] /\ started) =>
                /\ nPoll' = nPoll + 1
                /\ rooms'[r] = nPoll'
                /\ poll'[nPoll'].room = r
                /\ poll'[nPoll'].pc = "probe"]_vars

\* Every goroutine of the room other than the one m.rooms names has had
\* its cancel called: the room has no goroutine left behind by a second
\* start.
NoLeak(r) == \A t \in TasksOf(r) : t = rooms[r] \/ poll[t].own

\* C8: RemoveRoom resets the baseline.  A room without an entry in m.rooms
\* has no entry in m.status; a room whose goroutine has not recorded a
\* probe yet has none either; and the first probe recorded by a goroutine
\* is published only if it reports live.
C8_RemoveResetsBaseline ==
    \A r \in Rooms :
        NoLeak(r) =>
            /\ rooms[r] = 0 => status[r] = "none"
            /\ (rooms[r] # 0 /\ poll[rooms[r]].fresh) =>
                   IF poll[rooms[r]].pc = "emit"
                   THEN poll[rooms[r]].live
                   ELSE status[r] = "none"

\* C9: a check whose probe failed publishes nothing and leaves m.status
\* alone, and the goroutine goes back to its select, where the next tick
\* probes again: every step that takes a goroutine out of the GetRoomInfo
\* call either hands a result to the status update or puts the goroutine
\* at the select, and in both cases m.status, the channels and the
\* published events are as before.
C9_FailedProbeSkips ==
    [][\A t \in PollIds :
         (poll[t].pc = "probe" /\ poll'[t].pc # "probe") =>
             /\ poll'[t].pc \in {"update", "wait"}
             /\ UNCHANGED <<status, mch, emitted, probed, rooms>>]_vars

\* C9 witness: a goroutine whose context is not cancelled is probing again
\* after a tick, all its earlier probes having failed.
C9_Witness ==
    \E t \in PollIds :
        /\ poll[t].pc = "probe"
        /\ nTicks > 0
        /\ poll[t].fresh
        /\ probed[poll[t].room] = <<>>
        /\ ~PollCancelled(t)

\* ------------------------------------------------------------ fan-out
Last(q) == q[Len(q)]

\* What a non-blocking send of ev does to every channel in subs.
FannedOut(subs, old, new, ev) ==
    \A i \in SubIds :
        new[i] = IF i \in subs /\ Len(old[i]) < ChanCap THEN Append(old[i], ev)
                 ELSE old[i]

\* The steps that call publishEvent or publishStreamEvent send to every
\* channel with room and leave the full channels as they are.
C2_PublishSteps ==
    /\ \A t \in PollIds :
         (poll[t].pc = "emit" /\ poll'[t].pc # "emit") =>
             FannedOut(msubs, mch, mch', [room |-> poll[t].room, live |-> poll[t].live])
    /\ \A d \in SubIds :
         (disp[d].pc = "offpub" /\ disp'[d].pc = "run") =>
             FannedOut(csubs, cch, cch', [room |-> disp[d].room, type |-> "offline"])
    /\ \A d \in SubIds :
         (disp[d].pc = "run" /\ mch[d] # <<>> /\ mch'[d] = Tail(mch[d]) /\ Head(mch[d]).live) =>
             FannedOut(csubs, cch, cch', [room |-> Head(mch[d]).room, type |-> "live"])

\* A producer standing at a publish call can take the step, whatever the
\* channels hold.
C2_ProducerFree ==
    /\ \A t \in PollIds : poll[t].pc = "emit" => ENABLED PollEmit(t)
    /\ \A d \in SubIds : disp[d].pc = "offpub" => ENABLED publishOffline(d)
    /\ \A d \in SubIds :
         (disp[d].pc = "run" /\ mch[d] # <<>> /\ Head(mch[d]).live) => ENABLED handleLive(d)

\* C2: publishEvent and publishStreamEvent never block: a channel holding
\* ChanCap events misses the event, every channel with room gets it, the
\* publishing step is always enabled, and no channel exceeds ChanCap.
C2_FanOutNeverBlocks ==
    /\ [](/\ \A i \in SubIds : Len(mch[i]) <= ChanCap /\ Len(cch[i]) <= ChanCap
          /\ C2_ProducerFree)
    /\ [][C2_PublishSteps]_vars

\* C2 witness: of two subscribed channels one is full and the other holds
\* a later event that the full one missed, on the Monitor and on the client.
C2_Witness ==
    /\ \E i, j \in msubs :
         /\ Len(mch[i]) = ChanCap
         /\ mch[j] # <<>>
         /\ Last(mch[i]).live /\ ~Last(mch[j]).live
    /\ \E i, j \in csubs :
         /\ Len(cch[i]) = ChanCap
         /\ cch[j] # <<>>
         /\ Last(cch[i]).type = "live" /\ Last(cch[j]).type = "offline"

\* ------------------------------------------------------ capture goroutines
\* The capture goroutines of room r that hold a captureCtx.
Installed(r) == {c \in CaptIds : capt[c].room = r /\ capt[c].pc \in {"call", "backoff", "done"}}

\* C3: every capture goroutine whose context is not cancelled is the one
\* stored in c.captures for its room, so a room has at most one of them.
C3_OneCapturePerRoom ==
    \A r \in Rooms :
        /\ \A c \in Installed(r) : ~CaptCancelled(c) => captures[r] = c
        /\ Cardinality({c \in Installed(r) : ~CaptCancelled(c)}) <= 1

\* C3 witness: a second startCapture for a room has cancelled the first one,
\* which had not returned, and is the stored one.
C3_Witness ==
    \E r \in Rooms : \E c1, c2 \in Installed(r) :
        /\ capt[c1].by = "supersede"
        /\ capt[c1].pc # "done"
        /\ captures[r] = c2
        /\ ~CaptCancelled(c2)

\* C4: once EventOffline is the last event published for a room, no capture
\* goroutine of that room runs with an uncancelled context.
C4_OfflineCancelsCaptures ==
    \A r \in Rooms :
        derived[r] = "offline" =>
            \A c \in Installed(r) : capt[c].pc # "done" => CaptCancelled(c)

\* A sequence of n "error" entries.
Errors(n) == [i \in 1..n |-> "error"]

\* C10: while every probe of a room was live and nothing is cancelled, one
\* live RoomEvent is published, at most one capture goroutine exists, and
\* it has published one EventError per failed attempt and, after fewer than
\* maxCaptureRetries failures and a success, one EventAudioReady at the end.
C10_FirstLiveCapture ==
    \A r \in Rooms :
        (~ctxDone /\ \A k \in 1..Len(probed[r]) : probed[r][k]) =>
            /\ emitted[r] \in {<<>>, <<TRUE>>}
            /\ Cardinality({c \in CaptIds : capt[c].room = r}) <= 1
            /\ \A c \in CaptIds : capt[c].room = r =>
                 /\ emitted[r] = <<TRUE>>
                 /\ ~capt[c].own
                 /\ capt[c].pc = "start" => cev[c] = <<>>
                 /\ capt[c].pc = "call" => cev[c] = Errors(capt[c].attempt)
                 /\ capt[c].pc = "backoff" => cev[c] = Errors(capt[c].attempt + 1)
                 /\ capt[c].pc = "done" =>
                      IF capt[c].attempt < maxCaptureRetries
                      THEN cev[c] = Errors(capt[c].attempt) \o <<"audio_ready">>
                      ELSE cev[c] = Errors(maxCaptureRetries)

\* C10 witness: the capture goroutine of a room whose probes were all live
\* failed twice, succeeded and published error, error, audio_ready.
C10_Witness ==
    \E c \in CaptIds :
        /\ ~ctxDone
        /\ capt[c].pc = "done"
        /\ cev[c] = <<"error", "error", "audio_ready">>
        /\ probed[capt[c].room] # <<>>
        /\ \A k \in 1..Len(probed[capt[c].room]) : probed[capt[c].room][k]
        /\ emitted[capt[c].room] = <<TRUE>>

\* ------------------------------------------------- scheduling assumptions
\* Every started goroutine keeps running: a capture goroutine takes its next
\* step, its external calls return and its timer fires.
CaptureFairness ==
    \A c \in CaptIds :
        /\ WF_vars(startCaptureRegister(c))
        /\ WF_vars(startCaptureAttempt(c))
        /\ WF_vars(retryWaitElapsed(c))

FairCli == SpecCli /\ CaptureFairness

\* The number of "error" entries of a sequence of event types.
RECURSIVE ErrorCount(_)
ErrorCount(q) ==
    IF q = <<>> THEN 0
    ELSE (IF Head(q) = "error" THEN 1 ELSE 0) + ErrorCount(Tail(q))

\* A capture goroutine never starts more than maxCaptureRetries attempts nor
\* publishes more than maxCaptureRetries EventError, and one that used up
\* its attempts has returned with EventError as its last event.
C11_AttemptsBounded ==
    \A c \in CaptIds :
        /\ capt[c].attempt <= maxCaptureRetries
        /\ capt[c].pc \in {"call", "backoff"} => capt[c].attempt < maxCaptureRetries
        /\ ErrorCount(cev[c]) <= maxCaptureRetries
        /\ capt[c].attempt = maxCaptureRetries =>
             capt[c].pc = "done" /\ cev[c] = Errors(maxCaptureRetries)

\* C11: every capture goroutine returns, after at most maxCaptureRetries
\* attempts and EventError events; when all attempts failed nothing follows
\* the last EventError.
C11_CaptureTerminates ==
    /\ []C11_AttemptsBounded
    /\ \A c \in CaptIds : (capt[c].pc # "unused") ~> (capt[c].pc = "done")

\* C11 witness: a capture goroutine whose maxCaptureRetries attempts all
\* failed has returned, nothing being cancelled.
C11_Witness ==
    \E c \in CaptIds :
        /\ capt[c].pc = "done"
        /\ capt[c].attempt = maxCaptureRetries
        /\ cev[c] = Errors(maxCaptureRetries)
        /\ ~CaptCancelled(c)

\* ----------------------------------------- Subscribe with RemoveRoom calls
\* One Subscribe for one room whose polling goroutine checks the room once,
\* with calls of StreamClient.RemoveRoom at any moment.
NextRem ==
    \/ \E r \in Rooms : SubscribeOne(r)
    \/ WatchStartRoom
    \/ SubscribeLeave
    \/ MonitorClose
    \/ \E t \in PollIds : PollProbe(t)
    \/ \E t \in PollIds : PollUpdate(t)
    \/ \E t \in PollIds : PollEmit(t)
    \/ \E t \in PollIds : PollExit(t)
    \/ CancelCtx
    \/ \E d \in SubIds : dispatchDone(d)
    \/ \E d \in SubIds : dispatchClosed(d)
    \/ \E d \in SubIds : handleLive(d)
    \/ \E c \in CaptIds : startCaptureRegister(c)
    \/ \E c \in CaptIds : startCaptureAttempt(c)
    \/ \E c \in CaptIds : retryWaitDone(c)
    \/ \E c \in CaptIds : retryWaitElapsed(c)
    \/ \E d \in SubIds : cleanupCancel(d)
    \/ \E d \in SubIds : cleanupClose(d)
    \/ \E i \in SubIds : creceive(i)
    \/ \E r \in Rooms : ClientRemoveMonitor(r)
    \/ \E r \in Rooms : ClientRemoveCapture(r)

SpecRem == InitCli /\ [][NextRem]_vars

\* C12: a capture goroutine whose context is cancelled during its backoff
\* wait starts no further attempt and publishes no further event, and a
\* capture goroutine that returned stays so.
C12_CancelledBackoffAborts ==
    [][\A c \in CaptIds :
         /\ (capt[c].pc = "backoff" /\ CaptCancelled(c)) =>
                capt'[c].pc \in {"backoff", "done"} /\ cev'[c] = cev[c]
         /\ capt[c].pc = "done" => capt'[c].pc = "done" /\ cev'[c] = cev[c]]_vars

\* C12 witness: the caller's context being cancelled, a capture goroutine
\* left the backoff wait of its first failed attempt through the ctx.Done
\* case and returned.
C12_Witness ==
    \E c \in CaptIds :
        /\ ctxDone
        /\ ~capt[c].own
        /\ capt[c].pc = "done"
        /\ capt[c].attempt = 0
        /\ cev[c] = <<"error">>

\* C13: every EventError is published by a capture goroutine whose context
\* is not cancelled.
C13_NoErrorWhenCancelled ==
    [][\A c \in CaptIds :
         (cev'[c] # cev[c] /\ Last(cev'[c]) = "error") => ~CaptCancelled(c)]_vars

\* A call of Watch or Subscribe runs to its return, and the closer and the
\* cleanup goroutines it started keep running.
CloseFairness ==
    /\ WF_vars(WatchStartRoom)
    /\ WF_vars(SubscribeLeave)
    /\ WF_vars(MonitorClose)
    /\ \A d \in SubIds : WF_vars(cleanupCancel(d)) /\ WF_vars(cleanupClose(d))

FairFan == SpecFan /\ CloseFairness

\* C14: a channel of the Monitor or of the client is closed only when the
\* caller's context is cancelled, and once the context is cancelled every
\* channel made by Watch and by Subscribe is eventually closed.
C14_ClosedAfterCancel ==
    /\ [](\A i \in SubIds : (mclosed[i] \/ cclosed[i]) => ctxDone)
    /\ \A i \in SubIds : (ctxDone /\ i <= nWatch) ~> (mclosed[i] /\ cclosed[i])

\* C14 witness: after the cancellation both channels of the Monitor and both
\* channels of the client are closed.
C14_Witness ==
    /\ ctxDone
    /\ nWatch = MaxSubs
    /\ \A i \in SubIds : mclosed[i] /\ cclosed[i]

\* ------------------------------------------ Subscribe followed by AddRoom
\* The one Subscribe call, for one room.
SubscribeFirst(r) == nWatch = 0 /\ SubscribeEnter(<<r>>)

\* StreamClient.AddRoom called after Subscribe returned.
AddRoomLater(r) == started /\ ~watching /\ AddRoomCheck(r)

\* One Subscribe for one room and AddRoom calls after it: two rooms, each
\* checked once by its polling goroutine, whose live events start capture
\* goroutines, the dispatch loop and the end of the caller's context.
NextLife ==
    \/ \E r \in Rooms : SubscribeFirst(r)
    \/ WatchStartRoom
    \/ SubscribeLeave
    \/ MonitorClose
    \/ \E r \in Rooms : AddRoomLater(r)
    \/ \E r \in Rooms : AddRoomNoop(r)
    \/ \E r \in Rooms : AddRoom(r)
    \/ \E t \in PollIds : PollProbe(t)
    \/ \E t \in PollIds : PollUpdate(t)
    \/ \E t \in PollIds : PollEmit(t)
    \/ \E t \in PollIds : PollExit(t)
    \/ CancelCtx
    \/ \E d \in SubIds : dispatchDone(d)
    \/ \E d \in SubIds : dispatchClosed(d)
    \/ \E d \in SubIds : handleLive(d)
    \/ \E c \in CaptIds : startCaptureRegister(c)
    \/ \E c \in CaptIds : startCaptureAttempt(c)
    \/ \E c \in CaptIds : retryWaitDone(c)
    \/ \E c \in CaptIds : retryWaitElapsed(c)
    \/ \E d \in SubIds : cleanupCancel(d)
    \/ \E d \in SubIds : cleanupClose(d)

SpecLife == InitCli /\ [][NextLife]_vars

\* A failed GetRoomInfo of goroutine t, or a failed attempt of capture
\* goroutine c, is the step being taken.
ProbeFails(t) == poll[t].pc = "probe" /\ poll'[t].pc = "wait"
AttemptFails(c) == capt[c].pc = "call" /\ capt'[c].pc = "backoff"

\* C15: a failed probe or a failed capture attempt of one room leaves every
\* other polling and capture goroutine, the stored cancels, the dispatch
\* loops and the channels as they are; dispatch loops end and channels are
\* closed only when the caller's context is cancelled.
C15_ErrorsIsolated ==
    /\ [](\A i \in SubIds :
            (mclosed[i] \/ cclosed[i] \/ disp[i].pc = "exited") => ctxDone)
    /\ [][/\ \A t \in PollIds : ProbeFails(t) =>
                /\ \A u \in PollIds \ {t} : poll'[u] = poll[u]
                /\ capt' = capt
                /\ UNCHANGED <<rooms, captures, disp, mclosed, cclosed, msubs, csubs>>
          /\ \A c \in CaptIds : AttemptFails(c) =>
                /\ \A x \in CaptIds \ {c} : capt'[x] = capt[x]
                /\ poll' = poll
                /\ UNCHANGED <<rooms, captures, disp, mclosed, cclosed, msubs, csubs>>]_vars

\* C15 witness: the capture goroutine of one room failed twice while the one
\* of the other room published EventAudioReady, both polling goroutines and
\* the dispatch loop run and no channel is closed.
C15_Witness ==
    \E c1, c2 \in CaptIds :
        /\ capt[c1].room # capt[c2].room
        /\ capt[c1].pc = "backoff" /\ cev[c1] = <<"error", "error">>
        /\ capt[c2].pc = "done" /\ cev[c2] = <<"audio_ready">>
        /\ ~capt[c1].own /\ ~capt[c2].own /\ ~ctxDone
        /\ \A t \in PollIds : poll[t].pc = "wait"
        /\ disp[1].pc = "run"
        /\ \A i \in SubIds : ~mclosed[i] /\ ~cclosed[i]

\* C16: when no RemoveRoom call for a room is in progress, every capture
\* goroutine that was started for the room before such a call is cancelled
\* and is not stored in c.captures.
C16_RemoveCancelsCaptures ==
    \A c \in CaptIds :
        (capt[c].pre /\ capt[c].room \notin removing) =>
            /\ capt[c].pc \in {"call", "backoff"} => CaptCancelled(c)
            /\ captures[capt[c].room] # c

\* Dispatch loop d takes an event from its Monitor channel in this step.
Receives(d) == disp[d].pc = "run" /\ mch[d] # <<>> /\ mch'[d] = Tail(mch[d])

\* C17: a dispatch loop handles one RoomEvent at a time: a live event is
\* published as EventLive in the step that receives it, an offline event is
\* published as EventOffline before the loop receives the next event, and a
\* capture goroutine is started only by a step that publishes EventLive for
\* its room and publishes its own events only after that.
C17_DispatchKeepsOrder ==
    [][/\ \A d \in SubIds :
            /\ (Receives(d) /\ Head(mch[d]).live) =>
                   /\ FannedOut(csubs, cch, cch', [room |-> Head(mch[d]).room, type |-> "live"])
                   /\ disp'[d] = disp[d]
            /\ (Receives(d) /\ ~Head(mch[d]).live) =>
                   /\ cch' = cch
                   /\ disp'[d] = [pc |-> "offpub", room |-> Head(mch[d]).room]
            /\ disp[d].pc = "offpub" =>
                   /\ Len(mch'[d]) >= Len(mch[d])
                   /\ \/ disp'[d] = disp[d]
                      \/ /\ disp'[d].pc = "run"
                         /\ FannedOut(csubs, cch, cch', [room |-> disp[d].room, type |-> "offline"])
       /\ \A c \in CaptIds :
            /\ (capt[c].pc = "unused" /\ capt'[c].pc # "unused") =>
                   /\ cev[c] = <<>>
                   /\ \E d \in SubIds :
                        /\ Receives(d) /\ Head(mch[d]).live
                        /\ Head(mch[d]).room = capt'[c].room
            /\ cev'[c] # cev[c] => capt[c].pc = "call"]_vars

\* C17 witness: the dispatch loop has published EventLive and then
\* EventOffline for a room whose capture goroutine published an event.
C17_Witness ==
    \E c \in CaptIds :
        /\ cev[c] # <<>>
        /\ emitted[capt[c].room] = <<TRUE, FALSE>>
        /\ derived[capt[c].room] = "offline"
        /\ disp[1].pc = "run"
        /\ mch[1] = <<>>

\* ------------------------------------------------------ retryWait's delay
\* The largest number of seconds the model tells apart: every Duration of
\* Saturated seconds or more is represented by Saturated.  Such a value is
\* only compared with maxRetryDelay.
Saturated == 2^30

\* float64(baseRetryDelay) * math.Pow(2, float64(attempt)), in seconds.  The
\* product of a float64 and a power of two is exact.
Product(n) == IF n <= 28 THEN baseRetryDelay * 2^n ELSE Saturated

\* The product, in nanoseconds, is 2^63 or more and so outside int64:
\* baseRetryDelay * Second * 2^n >= 2^63.
OutOfInt64(n) ==
    IF n >= 63 THEN TRUE
    ELSE 63 - n <= 30 /\ baseRetryDelay * Second >= 2^(63 - n)

\* time.Duration(x) of a float64 x.  In range it is x; out of range Go leaves
\* the result to the implementation: math.MinInt64 on amd64, math.MaxInt64 on
\* arm64.
ToDuration(n) == IF OutOfInt64(n) THEN {-Saturated, Saturated} ELSE {Product(n)}

\* The same without the limit of maxRetryDelay.
retryDelayUncapped(n) == ToDuration(n)

\* retryWait's delay (client.go:233-236): the values it can have.
retryDelay(n) ==
    {IF d > maxRetryDelay THEN maxRetryDelay ELSE d : d \in ToDuration(n)}

\* retryWait computes its delay.
retryWaitDelay ==
    /\ wait.pc = "call"
    /\ \E d \in retryDelay(wait.attempt) :
         wait' = [wait EXCEPT !.pc = "timer", !.delay = d]
    /\ UNCHANGED <<monVars, csubs, cch, cclosed, captures, capt, nCapt, disp, cleaners,
                   removing, autoCapture, histVars>>

\* The timer fired and the loop calls retryWait with the next attempt.
retryWaitAgain ==
    /\ wait.pc = "timer"
    /\ wait.attempt < MaxAttempt
    /\ wait' = [pc |-> "call", attempt |-> wait.attempt + 1, delay |-> 0,
                prev |-> wait.delay, first |-> FALSE]
    /\ UNCHANGED <<monVars, csubs, cch, cclosed, captures, capt, nCapt, disp, cleaners,
                   removing, autoCapture, histVars>>

\* retryWait called with any attempt from 0 to MaxAttempt.
InitDelay ==
    /\ InitCommon
    /\ autoCapture = TRUE
    /\ wait \in {[NoWait EXCEPT !.pc = "call", !.attempt = n] : n \in 0..MaxAttempt}

NextDelay == retryWaitDelay \/ retryWaitAgain

SpecDelay == InitDelay /\ [][NextDelay]_vars

\* min(2s * 2^n, 2min) in seconds; for n > 28 the first argument is above
\* the second.
MinOfCap(n) ==
    IF n > 28 \/ baseRetryDelay * 2^n > maxRetryDelay THEN maxRetryDelay
    ELSE baseRetryDelay * 2^n

\* What C18 says of the delay computed for wait.attempt.
DelayAsClaimed ==
    /\ wait.delay = MinOfCap(wait.attempt)
    /\ wait.attempt <= 4 => wait.delay = <<2, 4, 8, 16, 32>>[wait.attempt + 1]
    /\ wait.delay <= maxRetryDelay
    /\ ~wait.first => wait.prev <= wait.delay

C19_CancelBeforeClose ==
    /\ [](\A i \in SubIds : cclosed[i] =>
            \A r \in Rooms : captures[r] # 0 => CaptCancelled(captures[r]))
    /\ [][/\ \A d \in SubIds :
               (cleaners[d] = "wait" /\ cleaners'[d] # "wait") =>
                   /\ cleaners'[d] = "sleep"
                   /\ cclosed' = cclosed
                   /\ \A r \in Rooms : captures[r] # 0 => capt'[captures[r]].own
                   /\ captures' = [r \in Rooms |-> 0]
          /\ cclosed' # cclosed =>
               \E d \in SubIds : cleaners[d] = "sleep" /\ cleaners'[d] = "done"]_vars

\* C19 witness: the channel of the client is closed after the cleanup
\* goroutine cancelled a capture goroutine that was waiting to retry.
C19_Witness ==
    /\ cclosed[1]
    /\ \E c \in CaptIds : capt[c].by = "cleanup" /\ cev[c] # <<>>
    /\ \A r \in Rooms : captures[r] = 0

\* Every goroutine that was started keeps running: the external calls of
\* the polling and the capture goroutines return, and a select whose
\* ctx.Done case is ready takes it.
LifeFairness ==
    /\ \A t \in PollIds :
         /\ WF_vars(PollProbe(t))
         /\ WF_vars(PollUpdate(t))
         /\ WF_vars(PollEmit(t))
         /\ WF_vars(PollExit(t))
    /\ \A d \in SubIds : WF_vars(dispatchDone(d))
    /\ CaptureFairness

FairLife == SpecLife /\ LifeFairness

\* No polling goroutine, dispatch loop or capture goroutine is running.
AllStopped ==
    /\ \A t \in PollIds : poll[t].pc \in {"unused", "exited"}
    /\ \A d \in SubIds : disp[d].pc \in {"unused", "exited"}
    /\ \A c \in CaptIds : capt[c].pc \in {"unused", "done"}

\* C20: once the caller's context is cancelled, the polling goroutines, also
\* those started by AddRoom, the dispatch loop and the capture goroutines all
\* return; a polling goroutine returns only with its own or the caller's
\* context cancelled, and a goroutine that returned stays so.
C20_AllStopAfterCancel ==
    /\ ctxDone ~> AllStopped
    /\ [][/\ \A t \in PollIds :
               /\ (poll[t].pc # "exited" /\ poll'[t].pc = "exited") =>
                      poll[t].pc = "wait" /\ PollCancelled(t)
               /\ poll[t].pc = "exited" => poll'[t].pc = "exited"
          /\ \A d \in SubIds : disp[d].pc = "exited" => disp'[d].pc = "exited"
          /\ \A c \in CaptIds : capt[c].pc = "done" => capt'[c].pc = "done"]_vars

\* C20 witness: after the cancellation the polling goroutine started by
\* Subscribe and the one started by AddRoom, the dispatch loop and two
\* capture goroutines have returned.
C20_Witness ==
    /\ ctxDone
    /\ AllStopped
    /\ nPoll = MaxPoll
    /\ disp[1].pc = "exited"
    /\ nCapt = MaxCapt

\* C21: a step that deletes the entry of a room from m.rooms cancels the
\* stored goroutine of that room and leaves the entries, the statuses and
\* the polling goroutines of the other rooms as they are; a RemoveRoom call
\* for a room without an entry changes nothing in the Monitor.
C21_RemoveRoomFrame ==
    [][\A r \in Rooms :
         /\ (rooms[r] # 0 /\ rooms'[r] = 0) =>
                /\ poll'[rooms[r]] = [poll[rooms[r]] EXCEPT !.own = TRUE]
                /\ status'[r] = "none"
                /\ \A q \in Rooms \ {r} : rooms'[q] = rooms[q] /\ status'[q] = status[q]
                /\ \A t \in PollIds \ {rooms[r]} : poll'[t] = poll[t]
                /\ UNCHANGED <<started, msubs, mch, mclosed, nWatch, ctxDone, nPoll>>
         /\ (rooms[r] = 0 /\ removed'[r] # removed[r]) => UNCHANGED monVars]_vars

\* C21 witness: room 1 was removed, its polling goroutine being cancelled,
\* while the goroutine of room 2 is stored, uncancelled, with a status.
C21_Witness ==
    /\ removed[1] /\ ~removed[2]
    /\ rooms[1] = 0
    /\ \E t \in TasksOf(1) : poll[t].own
    /\ rooms[2] # 0
    /\ ~poll[rooms[2]].own
    /\ status[2] # "none"
    /\ ~ctxDone

\* The number of "audio_ready" entries of a sequence of event types.
RECURSIVE ReadyCount(_)
ReadyCount(q) ==
    IF q = <<>> THEN 0
    ELSE (IF Head(q) = "audio_ready" THEN 1 ELSE 0) + ReadyCount(Tail(q))

\* C22: a capture goroutine publishes EventAudioReady at most once, as its
\* last event, and returns in the same step; the event carries the cancel
\* that the goroutine stored in c.captures, and a returned goroutine starts
\* no attempt and publishes nothing.
C22_ReadyIsTerminal ==
    /\ [](\A c \in CaptIds :
            /\ ReadyCount(cev[c]) <= 1
            /\ ReadyCount(cev[c]) = 1 =>
                   Last(cev[c]) = "audio_ready" /\ capt[c].pc = "done")
    /\ [][\A c \in CaptIds :
            /\ (capt[c].pc = "start" /\ capt'[c].pc # "start") =>
                   captures'[capt[c].room] = c
            /\ (cev'[c] # cev[c] /\ Last(cev'[c]) = "audio_ready") =>
                   /\ FannedOut(csubs, cch, cch',
                                [room |-> capt[c].room, type |-> "audio_ready", cancel |-> c])
                   /\ capt'[c].pc = "done"
            /\ capt[c].pc = "done" => capt'[c].pc = "done" /\ cev'[c] = cev[c]]_vars

\* C22 witness: a capture goroutine returned after one failure and a
\* success, and the channel holds its EventAudioReady with its cancel.
C22_Witness ==
    \E c \in CaptIds :
        /\ capt[c].pc = "done"
        /\ cev[c] = <<"error", "audio_ready">>
        /\ cch[1] # <<>>
        /\ Last(cch[1]) = [room |-> capt[c].room, type |-> "audio_ready", cancel |-> c]

\* ------------------------------------------- with and without auto-capture
\* A client made with WithAutoCapture(false) or with the default.
InitOpt == InitCommon /\ autoCapture \in BOOLEAN /\ wait = NoWait

SpecOpt == InitOpt /\ [][NextCli]_vars

\* C23: without auto-capture no capture goroutine is ever started, c.captures
\* stays empty and no EventError or EventAudioReady is published; a handled
\* live event is published as EventLive and starts one capture goroutine
\* with auto-capture and none without, and nothing else starts one.
C23_AutoCaptureOption ==
    /\ [](~autoCapture =>
            /\ nCapt = 0
            /\ \A r \in Rooms : captures[r] = 0
            /\ \A c \in CaptIds : capt[c] = NoCapt /\ cev[c] = <<>>
            /\ \A i \in SubIds : \A k \in 1..Len(cch[i]) :
                 cch[i][k].type \in {"live", "offline"})
    /\ [][/\ \A d \in SubIds : (Receives(d) /\ Head(mch[d]).live) =>
               /\ FannedOut(csubs, cch, cch', [room |-> Head(mch[d]).room, type |-> "live"])
               /\ IF autoCapture
                  THEN /\ nCapt' = nCapt + 1
                       /\ capt'[nCapt'] = [NoCapt EXCEPT !.room = Head(mch[d]).room,
                                                         !.pc = "start"]
                       /\ \A c \in CaptIds \ {nCapt'} : capt'[c] = capt[c]
                  ELSE nCapt' = nCapt /\ capt' = capt
          /\ nCapt' # nCapt => \E d \in SubIds : Receives(d) /\ Head(mch[d]).live]_vars

\* C23 witness: without auto-capture the dispatch loop published EventLive
\* for a room, the channel holds it and no capture goroutine exists.
C23_Witness ==
    /\ ~autoCapture
    /\ \E r \in Rooms :
         /\ derived[r] = "live"
         /\ cch[1] = <<[room |-> r, type |-> "live"]>>
    /\ nCapt = 0
    /\ disp[1].pc = "run"

\* Room r is in m.rooms or a Watch or AddRoom call is about to start it.
Added(r) ==
    \/ rooms[r] # 0
    \/ adding[r] > 0
    \/ \E k \in 1..Len(watchTodo) : watchTodo[k] = r

\* C24: a room for which RemoveRoom was called, and which no later call has
\* added again, gets no RoomEvent published.
C24_NoEventAfterRemove ==
    [][\A t \in PollIds :
         (poll[t].pc = "emit" /\ poll'[t].pc # "emit" /\ removed[poll[t].room]) =>
             Added(poll[t].room)]_vars

\* ------------------------------------- two Subscribe channels with captures
\* Two Subscribe calls on one client with auto-capture: the polling
\* goroutine, the two dispatch loops and the capture goroutines publish
\* while the two closer and the two cleanup goroutines shut the channels.
NextShut ==
    \/ \E ids \in IdLists : SubscribeFan(ids)
    \/ WatchStartRoom
    \/ SubscribeLeave
    \/ MonitorClose
    \/ \E t \in PollIds : PollProbe(t)
    \/ \E t \in PollIds : PollUpdate(t)
    \/ \E t \in PollIds : PollEmit(t)
    \/ \E t \in PollIds : PollExit(t)
    \/ CancelCtx
    \/ \E d \in SubIds : dispatchDone(d)
    \/ \E d \in SubIds : dispatchClosed(d)
    \/ \E d \in SubIds : handleLive(d)
    \/ \E c \in CaptIds : startCaptureRegister(c)
    \/ \E c \in CaptIds : startCaptureAttempt(c)
    \/ \E c \in CaptIds : retryWaitDone(c)
    \/ \E c \in CaptIds : retryWaitElapsed(c)
    \/ \E d \in SubIds : cleanupCancel(d)
    \/ \E d \in SubIds : cleanupClose(d)

SpecShut == InitCli /\ [][NextShut]_vars

\* A step in which a closer goroutine of Watch runs its close loop.
MonitorCloses == closers' < closers

\* A step in which a cleanup goroutine of Subscribe runs its close loop.
ClientCloses == \E d \in SubIds : cleaners[d] = "sleep" /\ cleaners'[d] = "done"

\* C25: the channels that publishEvent and publishStreamEvent send on (those
\* of m.subs and c.subs) are never closed ones, no closed channel gains an
\* event, and a close loop only closes channels that are still open.
C25_NoSendOrCloseOnClosed ==
    /\ [](\A i \in msubs : ~mclosed[i])
    /\ [](\A i \in csubs : ~cclosed[i])
    /\ [][\A i \in SubIds :
            /\ Len(mch'[i]) > Len(mch[i]) => ~mclosed[i]
            /\ Len(cch'[i]) > Len(cch[i]) => ~cclosed[i]
            /\ MonitorCloses /\ i \in msubs => ~mclosed[i]
            /\ ClientCloses /\ i \in csubs => ~cclosed[i]]_vars

\* C25 witness: both Subscribe channels and both Watch channels are closed,
\* and a capture goroutine that already published is about to publish again.
C25_Witness ==
    /\ nWatch = 2
    /\ \A i \in SubIds : mclosed[i] /\ cclosed[i]
    /\ \E c \in CaptIds : capt[c].pc = "call" /\ cev[c] # <<>>

\* ------------------------------------------- rooms that are never removed
\* Watch and AddRoom calls in any order and the polling goroutines they
\* start, with the record of what each room's goroutines published; no
\* RemoveRoom.
NextKeep ==
    \/ \E ids \in IdLists : Watch(ids)
    \/ WatchStartRoom
    \/ WatchReturn
    \/ MonitorClose
    \/ \E r \in Rooms : AddRoomCheck(r)
    \/ \E r \in Rooms : AddRoomNoop(r)
    \/ \E r \in Rooms : AddRoom(r)
    \/ \E t \in PollIds : PollProbe(t)
    \/ \E t \in PollIds : PollUpdateH(t)
    \/ \E t \in PollIds : PollEmitH(t)
    \/ \E t \in PollIds : PollTick(t)
    \/ \E t \in PollIds : PollExit(t)
    \/ CancelCtx

SpecKeep == InitMon /\ [][NextKeep]_vars

\* The sequence of Live values starts with TRUE and changes at every step.
Alternates(s) == \A k \in 1..Len(s) : s[k] = (k % 2 = 1)

\* C26: the RoomEvents published for a room that is never removed alternate,
\* starting with a live event.
C26_EventsAlternate == \A r \in Rooms : ~removed[r] => Alternates(emitted[r])

====
